---- MODULE Spec2Model ----
(***************************************************************************)
(* The persistent hybrid memory store of my-ai-agent                       *)
(* (src/agent/memory/store.py, src/agent/memory/embeddings.py).            *)
(*                                                                         *)
(* Representation                                                          *)
(*   text      a sequence of atoms: a word ("theme"), one whitespace       *)
(*             character (" ") or one punctuation character ("?", "!")     *)
(*   float     an integer number of tenths (10 stands for 1.0); the        *)
(*             float32 values are the even integers                       *)
(*   blob      the bytes struct.pack writes, kept as their length and the  *)
(*             float32 word each group of four bytes holds                 *)
(*   score     vector_score and keyword_score in thousandths, the hybrid   *)
(*             score in ten-thousandths (7 * v + 3 * k, no rounding)       *)
(*   database  the committed content of agent.db: the memories table, the  *)
(*             memories_fts index and the AUTOINCREMENT counter that       *)
(*             sqlite_sequence keeps for memories                          *)
(***************************************************************************)
EXTENDS Integers, Sequences, FiniteSets, TLC

VARIABLES
    memories,          \* table memories: id -> [content, category, embedding]
    memories_fts,      \* table memories_fts: rowid -> [content, category]
    sqlite_sequence,   \* largest id AUTOINCREMENT has ever assigned
    fastembed,         \* whether the fastembed package can be imported
    embed_model,       \* the module global _embed_model: "None" or "loaded"
    ret,               \* what the last call returned or raised
    returned,          \* history: the ids save has returned, in call order
    before,            \* history: count of live records before the last call
    prev_saved,        \* history: id returned by the call before the last, if
                       \*   that call was a successful save, else 0
    prev_before,       \* history: count of live records before that save
    pc,                \* concurrent callers: the statement each thread is at
    local,             \* concurrent callers: the local variables of each thread
    lock,              \* the thread whose connection holds agent.db's write lock, or 0
    made,              \* how many TextEmbedding objects have been constructed
    instance,          \* which of them _embed_model refers to (0: None)
    used,              \* history: the objects _get_model has returned
    codec,             \* a vector on its way through serialize_vector and back
    auto_approve_actions,  \* config.auto_approve_actions
    files,             \* the files write_file has written: path -> content
    skills_run,        \* how many skill actions have been executed
    tool_ret           \* what the last handle_tool_call did and returned

\* The state of the agent around the store; the store's own calls leave it alone.
avars == <<auto_approve_actions, files, skills_run, tool_ret>>

\* The state of the concurrent callers; the sequential calls leave it alone.
tvars == <<pc, local, lock, made, instance, used>>

vars == <<memories, memories_fts, sqlite_sequence, fastembed, embed_model, ret,
          returned, before, prev_saved, prev_before, tvars, codec, avars>>

-----------------------------------------------------------------------------
(* Bounds of the model *)

MaxSaves == 4

MaxLimit == 2

\* The rows written into agent.db by a writer other than save.
MaxRows == 2

\* The threads that call concurrently, and the calls each of them makes.
MaxThreads == 2

MaxCalls == 2

\* The save and delete calls the concurrent threads make in all.
MaxWrites == 4

\* The length of the vectors given to serialize_vector.
MaxLen == 2

-----------------------------------------------------------------------------
(* Texts *)

IsSpace(a) == a = " "

IsPunct(a) == a \in {"?", "!"}

IsWord(a) == ~IsSpace(a) /\ ~IsPunct(a)

T_empty == <<>>

T_mid == <<"dark", " ", "theme">>

T_long == <<"user", " ", "likes", " ", "dark", " ", "theme", "!">>

Q_punct == <<"?">>

Q_not == <<"NOT">>

Q_fact == <<"fact", "?">>

\* The (content, category) pairs the callers pass to save. The index holds the
\* category as a column of its own, so the query "fact?" matches all three.
SaveInputs ==
    { [content |-> T_empty, category |-> "fact"],
      [content |-> T_mid,   category |-> "fact"],
      [content |-> T_long,  category |-> "fact"] }

\* The queries the callers pass to search.
Queries == {T_empty, Q_punct, Q_not, Q_fact}

Limits == 1..MaxLimit

\* The ids the callers pass to delete: every id save can have returned, and one more.
DeleteIds == 1..(MaxSaves + 1)

\* The storage fault that hits a save: none, or the step it hits.
Faults == {"none", "insert", "trigger", "commit"}

\* Column embedding is a BLOB that may be NULL and whose length nothing constrains.
\* The values a row written with SQL by another writer can hold: NULL, the two floats
\* of a unit vector, two floats of a vector that is not of unit length, one float
\* only, and seven bytes (one float and three bytes more).
RowBlobs ==
    { [nbytes |-> 0, words |-> <<>>],
      [nbytes |-> 8, words |-> <<10, 0>>],
      [nbytes |-> 8, words |-> <<10, 10>>],
      [nbytes |-> 4, words |-> <<10>>],
      [nbytes |-> 7, words |-> <<10>>] }

-----------------------------------------------------------------------------
(* embeddings.py *)

\* model.embed([text]): the external model, a fixed function from text to a unit
\* vector of float32 (tenths: 6*6 + 8*8 = 10*10).
ModelEmbed(text) ==
    CASE text = T_empty -> <<6, 8>>
      [] text = T_mid   -> <<10, 0>>
      [] text = T_long  -> <<0, 10>>
      [] text = Q_punct -> <<8, 6>>
      [] text = Q_not   -> <<8, 6>>
      [] text = Q_fact  -> <<10, 0>>
      [] OTHER          -> <<6, 8>>

\* _get_model: the memoized model, loaded on first use; ImportError when the package
\* is missing. [raised, model]: the exception and the new value of _embed_model.
get_model(model, installed) ==
    IF model # "None" THEN [raised |-> "none", model |-> model]
    ELSE IF installed THEN [raised |-> "none", model |-> "loaded"]
    ELSE [raised |-> "ImportError", model |-> "None"]

\* Variant: a missing provider yields the zero vector instead of an exception.
embed_text_degrading(text, model, installed) ==
    LET g == get_model(model, installed)
    IN  IF g.raised # "none"
        THEN [raised |-> "none", model |-> g.model, vec |-> <<0, 0>>]
        ELSE [raised |-> "none", model |-> g.model, vec |-> ModelEmbed(text)]

\* embed_text: [raised, model, vec].
embed_text(text, model, installed) ==
    LET g == get_model(model, installed)
    IN  IF g.raised # "none"
        THEN [raised |-> g.raised, model |-> g.model, vec |-> <<>>]
        ELSE [raised |-> "none", model |-> g.model, vec |-> ModelEmbed(text)]

\* Variant: a format of half the precision.
F16(x) == 4 * (x \div 4)

\* The float32 nearest below a float: struct's "f" format stores float32.
F32(x) == 2 * (x \div 2)

\* struct.pack(f"{len(vec)}f", *vec): four bytes for each float.
serialize_vector(vec) ==
    [nbytes |-> 4 * Len(vec), words |-> [i \in 1..Len(vec) |-> F32(vec[i])]]

\* n = len(data) // 4; struct.unpack(f"{n}f", data): struct.error unless the buffer
\* holds exactly 4 * n bytes.
deserialize_vector(data) ==
    LET n == data.nbytes \div 4
    IN  IF 4 * n # data.nbytes
        THEN [raised |-> "struct.error", vec |-> <<>>]
        ELSE [raised |-> "none", vec |-> [i \in 1..n |-> data.words[i]]]

RECURSIVE SumTo(_, _)
SumTo(f, n) == IF n = 0 THEN 0 ELSE f[n] + SumTo(f, n - 1)

Min2(a, b) == IF a < b THEN a ELSE b

\* 1000 * (4k/100) ** .05 for k = 1..50, rounded: the values of x ** .05 on the sums
\* of squares of float32 vectors with components in -1.0 .. 1.0.
Pow005Table ==
    <<851, 881, 899, 912, 923, 931, 938, 945, 950, 955, 960, 964, 968, 971, 975, 978, 981, 984, 986, 989, 991, 994, 996, 998, 1000, 1002, 1004, 1006, 1007, 1009, 1011, 1012, 1014, 1015, 1017, 1018, 1020, 1021, 1022, 1024, 1025, 1026, 1027, 1029, 1030, 1031, 1032, 1033, 1034, 1035>>

\* s ** .05, s in hundredths, the result in thousandths.
Pow005(s) == IF s = 0 THEN 0 ELSE Pow005Table[s \div 4]

\* cosine_similarity(a, b) in thousandths: dot / (norm_a * norm_b) with the norms as
\* the source computes them (exponent .05), 0.0 when a norm is 0; zip stops at the
\* shorter vector.
cosine_similarity(a, b) ==
    LET n      == Min2(Len(a), Len(b))
        dot    == SumTo([i \in 1..n |-> a[i] * b[i]], n)
        norm_a == Pow005(SumTo([i \in 1..Len(a) |-> a[i] * a[i]], Len(a)))
        norm_b == Pow005(SumTo([i \in 1..Len(b) |-> b[i] * b[i]], Len(b)))
    IN  IF norm_a = 0 \/ norm_b = 0 THEN 0
        ELSE (dot * 10000000) \div (norm_a * norm_b)

-----------------------------------------------------------------------------
(* The SQL of store.py. A connection works on a database value                 *)
(* [memories, memories_fts, sqlite_sequence, total_changes]; what it has done  *)
(* reaches agent.db at commit.                                                 *)

\* _connect: a new connection sees the committed database and has changed nothing.
Connect ==
    [memories |-> memories, memories_fts |-> memories_fts,
     sqlite_sequence |-> sqlite_sequence, total_changes |-> 0]

Max(S) == CHOOSE x \in S : \A y \in S : y <= x

\* Variant: the id of a new row of an INTEGER PRIMARY KEY table declared without
\* AUTOINCREMENT: one more than the largest live id.
NextRowidNoAutoincrement(db) == Max(DOMAIN db.memories \cup {0}) + 1

\* The id of a new row of an INTEGER PRIMARY KEY AUTOINCREMENT table: one more than
\* the largest id ever assigned (sqlite_sequence), live or deleted.
NextRowid(db) == Max(DOMAIN db.memories \cup {db.sqlite_sequence}) + 1

\* Trigger memories_ai: AFTER INSERT ON memories, insert the row into memories_fts.
memories_ai(db, id) ==
    [db EXCEPT !.memories_fts =
        [r \in DOMAIN db.memories_fts \cup {id} |->
            IF r = id
            THEN [content |-> db.memories[id].content,
                  category |-> db.memories[id].category]
            ELSE db.memories_fts[r]],
               !.total_changes = @ + 1]

\* INSERT INTO memories (content, category, embedding, ...) VALUES (...), with the
\* trigger it fires; cursor.lastrowid is the new row's id. created_at is the clock's
\* reading, and the clock advances from one insert to the next: the reading is kept
\* as the number of the insert.
InsertMemory(db, content, category, blob) ==
    LET id  == NextRowid(db)
        row == [content |-> content, category |-> category, embedding |-> blob,
                created_at |-> id]
        ins == [db EXCEPT !.memories =
                    [r \in DOMAIN db.memories \cup {id} |->
                        IF r = id THEN row ELSE db.memories[r]],
                          !.sqlite_sequence = id,
                          !.total_changes = @ + 1]
    IN  [db |-> memories_ai(ins, id), lastrowid |-> id]

\* Variant: no trigger on DELETE; the index keeps the row.
memories_ad_missing(db, id) == db

\* Trigger memories_ad: AFTER DELETE ON memories, delete the row from memories_fts.
memories_ad(db, id) ==
    IF id \in DOMAIN db.memories_fts
    THEN [db EXCEPT !.memories_fts =
              [r \in DOMAIN db.memories_fts \ {id} |-> db.memories_fts[r]],
                    !.total_changes = @ + 1]
    ELSE db

\* DELETE FROM memories WHERE id = ?, with the trigger it fires for a deleted row.
DeleteMemory(db, id) ==
    IF id \in DOMAIN db.memories
    THEN memories_ad([db EXCEPT !.memories =
                          [r \in DOMAIN db.memories \ {id} |-> db.memories[r]],
                                !.total_changes = @ + 1], id)
    ELSE db

\* Variant: the INSERT reached the file before the failure and is not undone, the
\* index row is.
RollbackPartial(committed, db) == [committed EXCEPT !.memories = db.memories]

\* The database after a connection that ends without commit: sqlite rolls the open
\* transaction back, whatever the connection had written.
Rollback(committed, db) == committed

\* What save leaves in agent.db: the connection's writes when conn.commit() was
\* reached and succeeded, the database as it was when an exception came first.
\* A fault in the INSERT or in its trigger undoes the whole statement.
SaveDb(content, category, blob, fault) ==
    LET c0  == Connect
        ins == InsertMemory(c0, content, category, blob)
    IN  CASE fault = "none"    -> ins.db
          [] fault = "insert"  -> Rollback(c0, c0)
          [] fault = "trigger" -> Rollback(c0, c0)
          [] fault = "commit"  -> Rollback(c0, ins.db)

\* Variant: delete closes the connection without commit.
DeleteDbNoCommit(memory_id) ==
    [DeleteMemory(Connect, memory_id) EXCEPT !.memories = memories,
                                             !.memories_fts = memories_fts]

\* What delete leaves in agent.db: the DELETE and its trigger, committed.
DeleteDb(memory_id) == DeleteMemory(Connect, memory_id)

\* Variant: affected >= 0.
DeleteResultNonNegative(db) == db.total_changes >= 0

\* delete's return value: affected = conn.total_changes; affected > 0.
DeleteResult(db) == db.total_changes > 0

-----------------------------------------------------------------------------
(* The keyword index: FTS5's MATCH and rank *)

\* The tokens of a text: its maximal runs of word characters.
RECURSIVE TokensFrom(_, _, _)
TokensFrom(text, cur, acc) ==
    IF text = <<>> THEN (IF cur = <<>> THEN acc ELSE Append(acc, cur))
    ELSE IF IsWord(Head(text))
         THEN TokensFrom(Tail(text), Append(cur, Head(text)), acc)
         ELSE TokensFrom(Tail(text), <<>>, IF cur = <<>> THEN acc ELSE Append(acc, cur))

Tokens(text) == TokensFrom(text, <<>>, <<>>)

\* The words FTS5's query syntax reserves.
FtsKeywords == {<<"AND">>, <<"OR">>, <<"NOT">>}

\* fts5: syntax error: an operator with no operand before or after it.
FtsSyntaxError(qtokens) ==
    /\ qtokens # <<>>
    /\ \/ qtokens[1] \in FtsKeywords
       \/ qtokens[Len(qtokens)] \in FtsKeywords

\* How often a token occurs among the tokens of an indexed row.
RECURSIVE Occurrences(_, _)
Occurrences(toks, tok) ==
    IF toks = <<>> THEN 0
    ELSE (IF Head(toks) = tok THEN 1 ELSE 0) + Occurrences(Tail(toks), tok)

\* The tokens FTS5 indexes for a row: those of column content, then of column category.
RowTokens(row) == Tokens(row.content) \o <<<<row.category>>>>

\* memories_fts MATCH ?: the row holds every term of the query.
FtsMatch(toks, qtokens) == \A i \in DOMAIN qtokens : Occurrences(toks, qtokens[i]) > 0

\* The column rank (bm25, lower is better): more occurrences of the terms rank a row
\* better, a longer row worse.
FtsRank(toks, qtokens) ==
    0 - ((60 * SumTo([i \in DOMAIN qtokens |-> Occurrences(toks, qtokens[i])], Len(qtokens)))
            \div Len(toks))

\* A sequence of records sorted by key ascending, rows of equal key by ascending id.
RECURSIVE SortByRank(_)
SortByRank(S) ==
    IF S = {} THEN <<>>
    ELSE LET best == CHOOSE r \in S : \A o \in S :
                        \/ r.rank < o.rank
                        \/ r.rank = o.rank /\ r.rowid <= o.rowid
         IN  <<best>> \o SortByRank(S \ {best})

Take(seq, n) == SubSeq(seq, 1, Min2(n, Len(seq)))

\* SELECT rowid, rank FROM memories_fts WHERE memories_fts MATCH ? ORDER BY rank LIMIT ?
\* [raised, rows].
FtsQuery(fts, safe_query, lim) ==
    LET qtokens == Tokens(safe_query)
        toks    == [r \in DOMAIN fts |-> RowTokens(fts[r])]
        matched == {r \in DOMAIN fts : FtsMatch(toks[r], qtokens)}
    IN  IF FtsSyntaxError(qtokens)
        THEN [raised |-> "OperationalError", rows |-> <<>>]
        ELSE [raised |-> "none",
              rows |-> Take(SortByRank({[rowid |-> r, rank |-> FtsRank(toks[r], qtokens)] :
                                            r \in matched}),
                            lim)]

-----------------------------------------------------------------------------
(* MemoryStore.search *)

\* Tenths: VECTOR_WEIGHT = 0.7, KEYWORD_WEIGHT = 0.3.
VECTOR_WEIGHT == 7

KEYWORD_WEIGHT == 3

\* Variant: the query goes to the index as the caller wrote it.
SanitizeNothing(query) == query

\* re.sub(r'[^\w\s]', '', query)
Sanitize(query) == SelectSeq(query, LAMBDA a : ~IsPunct(a))

\* safe_query.strip() is not empty
StripNonEmpty(text) == \E i \in DOMAIN text : ~IsSpace(text[i])

\* SELECT ... FROM memories: the table scan returns the rows by ascending id.
RECURSIVE ScanIds(_)
ScanIds(S) ==
    IF S = {} THEN <<>>
    ELSE LET lo == CHOOSE x \in S : \A y \in S : x <= y
         IN  <<lo>> \o ScanIds(S \ {lo})

\* Step 3: the ids with a non-empty embedding blob, in scan order.
VectorIds(mem) == SelectSeq(ScanIds(DOMAIN mem), LAMBDA id : mem[id].embedding.nbytes > 0)

\* Step 3: max(0.0, cosine_similarity(query_embedding, mem_embedding)).
VectorScore(mem, id, query_embedding) ==
    LET sim == cosine_similarity(query_embedding, deserialize_vector(mem[id].embedding).vec)
    IN  IF sim > 0 THEN sim ELSE 0

RangeOf(seq) == {seq[i] : i \in DOMAIN seq}

MinOf(S) == CHOOSE x \in S : \A y \in S : x <= y

\* Step 4: rowid -> normalized keyword score of the fetched batch; empty when the
\* sanitized query is blank and when the FTS query raises (except Exception: pass).
KeywordScores(fts, query, limit) ==
    LET safe_query == Sanitize(query)
    IN  IF ~StripNonEmpty(safe_query) THEN <<>>
        ELSE LET q == FtsQuery(fts, safe_query, limit * 3)
             IN  IF q.raised # "none" \/ q.rows = <<>> THEN <<>>
                 ELSE LET rank       == [id \in {r.rowid : r \in RangeOf(q.rows)} |->
                                            (CHOOSE r \in RangeOf(q.rows) : r.rowid = id).rank]
                          ranks      == {rank[id] : id \in DOMAIN rank}
                          min_rank   == MinOf(ranks)
                          max_rank   == Max(ranks)
                          rank_range == IF max_rank # min_rank THEN max_rank - min_rank ELSE 1
                      IN  [id \in DOMAIN rank |->
                              1000 - (((rank[id] - min_rank) * 1000) \div rank_range)]

\* Step 5: one result entry.
Combine(mem, id, query_embedding, keyword_scores) ==
    LET v_score == VectorScore(mem, id, query_embedding)
        k_score == IF id \in DOMAIN keyword_scores THEN keyword_scores[id] ELSE 0
    IN  [id |-> id, content |-> mem[id].content, category |-> mem[id].category,
         score |-> (VECTOR_WEIGHT * v_score) + (KEYWORD_WEIGHT * k_score),
         vector_score |-> v_score, keyword_score |-> k_score]

\* Variant: a descending sort that is not stable: an entry goes before the entries
\* of equal score already placed.
InsertDescUnstable(sorted, e) ==
    LET n == Cardinality({i \in DOMAIN sorted : sorted[i].score > e.score})
    IN  SubSeq(sorted, 1, n) \o <<e>> \o SubSeq(sorted, n + 1, Len(sorted))

\* list.sort is stable, also with reverse=True: an entry goes behind every entry
\* already placed whose score is not smaller.
InsertDesc(sorted, e) ==
    LET n == Cardinality({i \in DOMAIN sorted : sorted[i].score >= e.score})
    IN  SubSeq(sorted, 1, n) \o <<e>> \o SubSeq(sorted, n + 1, Len(sorted))

RECURSIVE SortDescFrom(_, _)
SortDescFrom(todo, sorted) ==
    IF todo = <<>> THEN sorted
    ELSE SortDescFrom(Tail(todo), InsertDesc(sorted, Head(todo)))

\* combined.sort(key=lambda x: x["score"], reverse=True)
SortDesc(combined) == SortDescFrom(combined, <<>>)

\* Python's combined[:limit]
Slice(seq, limit) == Take(seq, limit)

\* Whether a stored blob makes deserialize_vector raise in step 3.
BadBlob(mem) ==
    \E id \in RangeOf(VectorIds(mem)) : deserialize_vector(mem[id].embedding).raised # "none"

\* search(query, limit) on the database (mem, fts): [raised, model, hits].
Search(mem, fts, query, limit, model, installed) ==
    LET e == embed_text(query, model, installed)
    IN  IF e.raised # "none" THEN [raised |-> e.raised, model |-> e.model, hits |-> <<>>]
        ELSE IF DOMAIN mem = {} THEN [raised |-> "none", model |-> e.model, hits |-> <<>>]
        ELSE IF BadBlob(mem)
             THEN [raised |-> "struct.error", model |-> e.model, hits |-> <<>>]
        ELSE LET ids == VectorIds(mem)
                 ks  == KeywordScores(fts, query, limit)
                 combined == [i \in DOMAIN ids |-> Combine(mem, ids[i], e.vec, ks)]
             IN  [raised |-> "none", model |-> e.model,
                  hits |-> Slice(SortDesc(combined), limit)]

-----------------------------------------------------------------------------
(* MemoryStore.get_all *)

\* SELECT id, ... FROM memories ORDER BY created_at DESC: the ids, latest first.
RECURSIVE OrderByCreatedDesc(_, _)
OrderByCreatedDesc(mem, S) ==
    IF S = {} THEN <<>>
    ELSE LET latest == CHOOSE x \in S : \A y \in S :
                          \/ mem[x].created_at > mem[y].created_at
                          \/ mem[x].created_at = mem[y].created_at /\ x <= y
         IN  <<latest>> \o OrderByCreatedDesc(mem, S \ {latest})

\* The key of the first entry of the dict get_all builds: the source writes the bare
\* name id, which is Python's builtin function, not the string "id".
IdKey == "<built-in function id>"

\* {id: r[0], "content": r[1], "category": r[2], "created_at": r[3]}
RowDict(mem, id) ==
    (IdKey :> id) @@ [content |-> mem[id].content, category |-> mem[id].category,
                      created_at |-> mem[id].created_at]

\* get_all(limit): LIMIT ? rows of the ordered table, one dict for each.
GetAll(mem, limit) ==
    LET ids == Take(OrderByCreatedDesc(mem, DOMAIN mem), limit)
    IN  [i \in DOMAIN ids |-> RowDict(mem, ids[i])]

-----------------------------------------------------------------------------
(* Calls and their results *)

Count == Cardinality(DOMAIN memories)

NoCall ==
    [op |-> "none", raised |-> "none", fault |-> "none", id |-> 0, flag |-> FALSE,
     n |-> 0, content |-> <<>>, query |-> <<>>, limit |-> 0, hits |-> <<>>]

\* The history variables after a call.
Record ==
    /\ before' = Count
    /\ prev_saved' = IF ret.op = "save" /\ ret.raised = "none" THEN ret.id ELSE 0
    /\ prev_before' = IF ret.op = "save" /\ ret.raised = "none" THEN before ELSE 0
    /\ UNCHANGED <<tvars, codec, avars>>

\* MemoryStore.save(content, category)
Save(content, category, fault) ==
    /\ Len(returned) < MaxSaves
    /\ \E e \in {embed_text(content, embed_model, fastembed)} :
           /\ embed_model' = e.model
           /\ IF e.raised # "none"
              THEN /\ ret' = [NoCall EXCEPT !.op = "save", !.raised = e.raised,
                                            !.fault = "embed", !.content = content]
                   /\ UNCHANGED <<memories, memories_fts, sqlite_sequence, returned>>
              ELSE \E blob \in {serialize_vector(e.vec)} :
                   \E db \in {SaveDb(content, category, blob, fault)},
                      id \in {InsertMemory(Connect, content, category, blob).lastrowid} :
                       /\ memories' = db.memories
                       /\ memories_fts' = db.memories_fts
                       /\ sqlite_sequence' = db.sqlite_sequence
                       /\ IF fault = "none"
                          THEN /\ ret' = [NoCall EXCEPT !.op = "save", !.id = id,
                                                        !.content = content]
                               /\ returned' = Append(returned, id)
                          ELSE /\ ret' = [NoCall EXCEPT !.op = "save",
                                                        !.raised = "OperationalError",
                                                        !.fault = fault,
                                                        !.content = content]
                               /\ UNCHANGED returned
    /\ UNCHANGED fastembed
    /\ Record

\* MemoryStore.delete(memory_id)
Delete(memory_id) ==
    /\ \E db \in {DeleteDb(memory_id)} :
           /\ memories' = db.memories
           /\ memories_fts' = db.memories_fts
           /\ sqlite_sequence' = db.sqlite_sequence
           /\ ret' = [NoCall EXCEPT !.op = "delete", !.id = memory_id,
                                    !.flag = DeleteResult(db)]
    /\ UNCHANGED <<fastembed, embed_model, returned>>
    /\ Record

\* MemoryStore.search(query, limit)
SearchCall(query, limit) ==
    /\ \E r \in {Search(memories, memories_fts, query, limit, embed_model, fastembed)} :
           /\ embed_model' = r.model
           /\ ret' = [NoCall EXCEPT !.op = "search", !.raised = r.raised,
                                    !.query = query, !.limit = limit, !.hits = r.hits]
    /\ UNCHANGED <<memories, memories_fts, sqlite_sequence, fastembed, returned>>
    /\ Record

\* MemoryStore.count()
CountCall ==
    /\ ret' = [NoCall EXCEPT !.op = "count", !.n = Cardinality(DOMAIN memories)]
    /\ UNCHANGED <<memories, memories_fts, sqlite_sequence, fastembed, embed_model,
                   returned>>
    /\ Record

\* MemoryStore.get_all(limit)
GetAllCall(limit) ==
    /\ ret' = [NoCall EXCEPT !.op = "get_all", !.limit = limit,
                             !.hits = GetAll(memories, limit)]
    /\ UNCHANGED <<memories, memories_fts, sqlite_sequence, fastembed, embed_model,
                   returned>>
    /\ Record

\* The process ends and a new one opens the same agent.db: _embed_model is None
\* again, and fastembed may have been installed or removed meanwhile.
Restart(installed) ==
    /\ fastembed' = installed
    /\ embed_model' = "None"
    /\ ret' = NoCall
    /\ UNCHANGED <<memories, memories_fts, sqlite_sequence, returned>>
    /\ Record

\* Another writer (the sqlite3 shell, an import script) runs the INSERT on agent.db
\* with an embedding of its own; the table's trigger mirrors the row into the index.
InsertRow(content, category, blob) ==
    /\ sqlite_sequence < MaxRows
    /\ \E ins \in {InsertMemory(Connect, content, category, blob)} :
           /\ memories' = ins.db.memories
           /\ memories_fts' = ins.db.memories_fts
           /\ sqlite_sequence' = ins.db.sqlite_sequence
           /\ ret' = [NoCall EXCEPT !.op = "row", !.id = ins.lastrowid]
    /\ UNCHANGED <<fastembed, embed_model, returned>>
    /\ Record

-----------------------------------------------------------------------------
(* Concurrent callers of embed_text: the statements of _get_model, one step each *)

Threads == 1..MaxThreads

\* The locals of a thread: the calls it has made, the TextEmbedding it constructed,
\* the call it is in (op, arg), its connection's view of agent.db, and its result.
NoLocals ==
    [calls |-> 0, model |-> 0, op |-> "none", arg |-> 0, content |-> <<>>,
     blob |-> <<>>, conn |-> <<>>, id |-> 0, raised |-> "none", deleted |-> {}]

\* What the sequential state keeps while the threads step.
ThreadStep(t, to) ==
    /\ pc' = [pc EXCEPT ![t] = to]
    /\ UNCHANGED <<fastembed, ret, returned, before, prev_saved, prev_before, codec,
                   avars>>

\* embed_text / embed_texts: model = _get_model()
CallEmbed(t) ==
    /\ pc[t] = "idle"
    /\ local[t].calls < MaxCalls
    /\ local' = [local EXCEPT ![t].calls = @ + 1]
    /\ ThreadStep(t, "test")
    /\ UNCHANGED <<memories, memories_fts, sqlite_sequence, embed_model, lock, made,
                   instance, used>>

\* if _embed_model is not None: (return _embed_model)
TestModel(t) ==
    /\ pc[t] = "test"
    /\ ThreadStep(t, IF instance # 0 THEN "return" ELSE "construct")
    /\ UNCHANGED <<memories, memories_fts, sqlite_sequence, embed_model, local, lock,
                   made, instance, used>>

\* from fastembed import TextEmbedding; TextEmbedding(model_name=...): a new object,
\* or ImportError out of _get_model.
ConstructModel(t) ==
    /\ pc[t] = "construct"
    /\ IF fastembed
       THEN /\ made' = made + 1
            /\ local' = [local EXCEPT ![t].model = made + 1]
            /\ ThreadStep(t, "assign")
       ELSE /\ local' = [local EXCEPT ![t].raised = "ImportError"]
            /\ ThreadStep(t, "idle")
            /\ UNCHANGED made
    /\ UNCHANGED <<memories, memories_fts, sqlite_sequence, embed_model, lock,
                   instance, used>>

\* _embed_model = (the object constructed)
AssignModel(t) ==
    /\ pc[t] = "assign"
    /\ instance' = local[t].model
    /\ embed_model' = "loaded"
    /\ ThreadStep(t, "return")
    /\ UNCHANGED <<memories, memories_fts, sqlite_sequence, local, lock, made, used>>

\* return _embed_model: the caller gets what the global refers to now.
ReturnModel(t) ==
    /\ pc[t] = "return"
    /\ used' = used \cup {instance}
    /\ ThreadStep(t, "idle")
    /\ UNCHANGED <<memories, memories_fts, sqlite_sequence, embed_model, local, lock,
                   made, instance>>

-----------------------------------------------------------------------------
(* Concurrent callers of save and delete. Every call opens a connection of its    *)
(* own (_connect); sqlite lets one connection at a time write agent.db: a write   *)
(* statement takes the file's write lock and holds it until the connection        *)
(* commits, and a statement that cannot get the lock within the busy timeout      *)
(* fails with "database is locked".                                               *)

\* Variant: a write statement does not wait for the lock.
WriteLockFreeAlways(t) == TRUE

\* The write lock can be taken by thread t's connection.
WriteLockFree(t) == lock = 0

\* The calls the threads have made.
CallsMade == SumTo([t \in Threads |-> local[t].calls], MaxThreads)

\* save(content, category) up to conn = self._connect(): the embedding and its blob.
CallSave(t, content, category) ==
    /\ pc[t] = "idle"
    /\ CallsMade < MaxWrites
    /\ \E e \in {embed_text(content, embed_model, fastembed)} :
           /\ embed_model' = e.model
           /\ IF e.raised # "none"
              THEN /\ local' = [local EXCEPT ![t].calls = @ + 1, ![t].op = "save",
                                             ![t].raised = e.raised]
                   /\ ThreadStep(t, "idle")
              ELSE /\ local' = [local EXCEPT ![t].calls = @ + 1, ![t].op = "save",
                                             ![t].content = content, ![t].arg = category,
                                             ![t].blob = serialize_vector(e.vec),
                                             ![t].raised = "none"]
                   /\ ThreadStep(t, "execute")
    /\ UNCHANGED <<memories, memories_fts, sqlite_sequence, lock, made, instance, used>>

\* delete(memory_id) up to conn = self._connect()
CallDelete(t, memory_id) ==
    /\ pc[t] = "idle"
    /\ CallsMade < MaxWrites
    /\ local' = [local EXCEPT ![t].calls = @ + 1, ![t].op = "delete",
                              ![t].arg = memory_id, ![t].raised = "none"]
    /\ ThreadStep(t, "execute")
    /\ UNCHANGED <<memories, memories_fts, sqlite_sequence, embed_model, lock, made,
                   instance, used>>

\* conn.execute(INSERT ...) / conn.execute(DELETE ...): the statement, and the trigger
\* it fires, run on the committed database under the write lock.
ExecuteWrite(t) ==
    /\ pc[t] = "execute"
    /\ WriteLockFree(t)
    /\ lock' = t
    /\ IF local[t].op = "save"
       THEN \E ins \in {InsertMemory(Connect, local[t].content, local[t].arg,
                                     local[t].blob)} :
               local' = [local EXCEPT ![t].conn = ins.db, ![t].id = ins.lastrowid]
       ELSE local' = [local EXCEPT ![t].conn = DeleteMemory(Connect, local[t].arg)]
    /\ ThreadStep(t, "commit")
    /\ UNCHANGED <<memories, memories_fts, sqlite_sequence, embed_model, made,
                   instance, used>>

\* The statement of a thread that found the lock held until its busy timeout ran out:
\* sqlite3.OperationalError out of save or delete, nothing written.
BusyTimeout(t) ==
    /\ pc[t] = "execute"
    /\ lock # 0
    /\ lock # t
    /\ local' = [local EXCEPT ![t].raised = "OperationalError"]
    /\ ThreadStep(t, "idle")
    /\ UNCHANGED <<memories, memories_fts, sqlite_sequence, embed_model, lock, made,
                   instance, used>>

\* conn.commit(): the connection's writes reach agent.db, the lock is released.
CommitWrite(t) ==
    /\ pc[t] = "commit"
    /\ memories' = local[t].conn.memories
    /\ memories_fts' = local[t].conn.memories_fts
    /\ sqlite_sequence' = local[t].conn.sqlite_sequence
    /\ lock' = IF lock = t THEN 0 ELSE lock
    /\ ThreadStep(t, "return")
    /\ UNCHANGED <<embed_model, local, made, instance, used>>

\* conn.close() and the return: save returns cursor.lastrowid, delete returns
\* conn.total_changes > 0.
ReturnWrite(t) ==
    /\ pc[t] = "return"
    /\ local[t].op \in {"save", "delete"}
    /\ pc' = [pc EXCEPT ![t] = "idle"]
    /\ IF local[t].op = "save"
       THEN /\ returned' = Append(returned, local[t].id)
            /\ UNCHANGED local
       ELSE /\ local' = [local EXCEPT ![t].deleted =
                            IF DeleteResult(local[t].conn) THEN @ \cup {local[t].arg}
                            ELSE @]
            /\ UNCHANGED returned
    /\ UNCHANGED <<memories, memories_fts, sqlite_sequence, fastembed, embed_model, ret,
                   before, prev_saved, prev_before, lock, made, instance, used, codec,
                   avars>>

-----------------------------------------------------------------------------
(* The codec on its own: a vector through serialize_vector and deserialize_vector *)

\* The floats of the inputs, in tenths: float32 values (even) and floats between them.
Floats == -3..3

RECURSIVE SeqsOf(_, _)
SeqsOf(S, n) ==
    IF n = 0 THEN {<<>>}
    ELSE LET shorter == SeqsOf(S, n - 1)
         IN  shorter \cup {Append(v, x) : v \in {w \in shorter : Len(w) = n - 1}, x \in S}

Vectors == SeqsOf(Floats, MaxLen)

NoVector == [stage |-> "none", input |-> <<>>, data |-> <<>>, raised |-> "none",
             output |-> <<>>]

\* What the rest of the state keeps while the codec works.
CodecStep ==
    UNCHANGED <<memories, memories_fts, sqlite_sequence, fastembed, embed_model, ret,
                returned, before, prev_saved, prev_before, tvars, avars>>

\* data = serialize_vector(vec)
SerializeCall ==
    /\ codec.stage = "input"
    /\ codec' = [codec EXCEPT !.stage = "packed", !.data = serialize_vector(codec.input)]
    /\ CodecStep

\* deserialize_vector(data)
DeserializeCall ==
    /\ codec.stage = "packed"
    /\ \E d \in {deserialize_vector(codec.data)} :
           codec' = [codec EXCEPT !.stage = "unpacked", !.raised = d.raised,
                                  !.output = d.vec]
    /\ CodecStep

-----------------------------------------------------------------------------
(* core.py: Agent.handle_tool_call *)

\* The tools get_tools declares, and a name that is none of them.
ToolNames ==
    {"search_memory", "save_memory", "read_file", "write_file", "run_skill",
     "list_skills", "drop_memory"}

\* Config.auto_approve_actions as the dataclass sets it.
DefaultAutoApprove == {"read_file", "search_memory", "list_skills"}

\* The configurations the agent is run with: the default, nothing approved, and the
\* default with save_memory approved as well.
AutoApproveConfigs ==
    {DefaultAutoApprove, {}, DefaultAutoApprove \cup {"save_memory"}}

\* approval_callback: not supplied (None), or a function that returns a falsy or a
\* truthy value for this call.
Callbacks == {"None", "deny", "approve"}

NoToolCall ==
    [name |-> "none", callback |-> "None", asked |-> FALSE, handled |-> FALSE,
     result |-> "none", after_approved |-> FALSE]

\* Variant: a call without callback goes through.
PermissionGateOpenWithoutCallback(tool_name, callback) ==
    IF tool_name \notin auto_approve_actions /\ callback = "deny"
    THEN "Action denied by user."
    ELSE "pass"

\* The permission gate: the message it returns, or "pass".
PermissionGate(tool_name, callback) ==
    IF tool_name \notin auto_approve_actions
    THEN IF callback # "None"
         THEN (IF callback # "approve" THEN "Action denied by user." ELSE "pass")
         ELSE "requires approval"
    ELSE "pass"

\* The record of a call, after the record of the call before it.
ToolRet(tool_name, callback, gate, result) ==
    [name |-> tool_name, callback |-> callback,
     asked |-> tool_name \notin auto_approve_actions /\ callback # "None",
     handled |-> gate = "pass",
     result |-> IF gate = "pass" THEN result ELSE gate,
     after_approved |-> tool_ret.asked /\ tool_ret.handled]

\* handle_tool_call(tool_name, tool_input, approval_callback); of tool_input the
\* model varies one value, the category of save_memory and the content of write_file.
HandleToolCall(tool_name, value, callback) ==
    \E gate \in {PermissionGate(tool_name, callback)} :
        /\ UNCHANGED <<fastembed, ret, before, prev_saved, prev_before, tvars, codec,
                       auto_approve_actions>>
        /\ CASE gate # "pass" ->
                 /\ tool_ret' = ToolRet(tool_name, callback, gate, "none")
                 /\ UNCHANGED <<memories, memories_fts, sqlite_sequence, embed_model,
                                returned, files, skills_run>>
             [] gate = "pass" /\ tool_name = "search_memory" ->
                 \E r \in {Search(memories, memories_fts, Q_fact, 5, embed_model,
                                  fastembed)} :
                     /\ embed_model' = r.model
                     /\ tool_ret' = ToolRet(tool_name, callback, gate,
                                            IF r.raised # "none" THEN r.raised
                                            ELSE IF r.hits = <<>>
                                                 THEN "No relevant memories found."
                                                 ELSE "memories")
                     /\ UNCHANGED <<memories, memories_fts, sqlite_sequence, returned,
                                    files, skills_run>>
             [] gate = "pass" /\ tool_name = "save_memory" ->
                 /\ sqlite_sequence < MaxRows
                 /\ \E e \in {embed_text(T_mid, embed_model, fastembed)} :
                        /\ embed_model' = e.model
                        /\ IF e.raised # "none"
                           THEN /\ tool_ret' = ToolRet(tool_name, callback, gate, e.raised)
                                /\ UNCHANGED <<memories, memories_fts, sqlite_sequence,
                                               returned>>
                           ELSE \E ins \in {InsertMemory(Connect, T_mid, value,
                                                         serialize_vector(e.vec))} :
                                    /\ memories' = ins.db.memories
                                    /\ memories_fts' = ins.db.memories_fts
                                    /\ sqlite_sequence' = ins.db.sqlite_sequence
                                    /\ returned' = Append(returned, ins.lastrowid)
                                    /\ tool_ret' = ToolRet(tool_name, callback, gate,
                                                           "Saved to memory")
                 /\ UNCHANGED <<files, skills_run>>
             [] gate = "pass" /\ tool_name = "read_file" ->
                 /\ tool_ret' = ToolRet(tool_name, callback, gate,
                                        IF "notes" \in DOMAIN files THEN files["notes"]
                                        ELSE "File not found")
                 /\ UNCHANGED <<memories, memories_fts, sqlite_sequence, embed_model,
                                returned, files, skills_run>>
             [] gate = "pass" /\ tool_name = "write_file" ->
                 /\ files' = [f \in DOMAIN files \cup {"notes"} |->
                                 IF f = "notes" THEN value ELSE files[f]]
                 /\ tool_ret' = ToolRet(tool_name, callback, gate, "Written")
                 /\ UNCHANGED <<memories, memories_fts, sqlite_sequence, embed_model,
                                returned, skills_run>>
             [] gate = "pass" /\ tool_name = "run_skill" ->
                 /\ skills_run < MaxCalls
                 /\ skills_run' = skills_run + 1
                 /\ tool_ret' = ToolRet(tool_name, callback, gate, "skill output")
                 /\ UNCHANGED <<memories, memories_fts, sqlite_sequence, embed_model,
                                returned, files>>
             [] gate = "pass" /\ tool_name = "list_skills" ->
                 /\ tool_ret' = ToolRet(tool_name, callback, gate, "skills")
                 /\ UNCHANGED <<memories, memories_fts, sqlite_sequence, embed_model,
                                returned, files, skills_run>>
             [] OTHER ->
                 /\ tool_ret' = ToolRet(tool_name, callback, gate, "Unknown tool")
                 /\ UNCHANGED <<memories, memories_fts, sqlite_sequence, embed_model,
                                returned, files, skills_run>>

\* A new agent.db, in a process that has fastembed installed (Restart removes it),
\* no thread in a call, no file written, no skill run.
InitStore ==
    /\ memories = <<>>
    /\ memories_fts = <<>>
    /\ sqlite_sequence = 0
    /\ fastembed = TRUE
    /\ embed_model = "None"
    /\ ret = NoCall
    /\ returned = <<>>
    /\ before = 0
    /\ prev_saved = 0
    /\ prev_before = 0
    /\ pc = [t \in Threads |-> "idle"]
    /\ local = [t \in Threads |-> NoLocals]
    /\ lock = 0
    /\ made = 0
    /\ instance = 0
    /\ used = {}
    /\ files = <<>>
    /\ skills_run = 0
    /\ tool_ret = NoToolCall

\* The agent as Agent.__init__ builds it with the default Config.
Init ==
    /\ InitStore
    /\ codec = NoVector
    /\ auto_approve_actions = DefaultAutoApprove

Next ==
    \/ \E in \in SaveInputs, fault \in Faults : Save(in.content, in.category, fault)
    \/ \E id \in DeleteIds : Delete(id)
    \/ \E query \in Queries, limit \in Limits : SearchCall(query, limit)
    \/ CountCall
    \/ \E installed \in BOOLEAN : Restart(installed)

Spec == Init /\ [][Next]_vars

\* The store as the listing sees it: records saved and deleted, then get_all.
NextList ==
    \/ \E in \in SaveInputs : Save(in.content, in.category, "none")
    \/ \E id \in DeleteIds : Delete(id)
    \/ \E limit \in Limits : GetAllCall(limit)

SpecList == Init /\ [][NextList]_vars

\* The store on an agent.db that other writers insert rows into.
NextDb ==
    \/ \E blob \in RowBlobs : InsertRow(T_mid, "fact", blob)
    \/ \E id \in 1..MaxRows : Delete(id)
    \/ \E query \in Queries, limit \in Limits : SearchCall(query, limit)

SpecDb == Init /\ [][NextDb]_vars

\* Threads that call embed_text concurrently in one process.
NextLoad ==
    \E t \in Threads :
        \/ CallEmbed(t)
        \/ TestModel(t)
        \/ ConstructModel(t)
        \/ AssignModel(t)
        \/ ReturnModel(t)

SpecLoad == Init /\ [][NextLoad]_vars

\* The codec applied to every vector of the bounded set.
InitCodec ==
    /\ InitStore
    /\ auto_approve_actions = DefaultAutoApprove
    /\ \E vec \in Vectors : codec = [NoVector EXCEPT !.stage = "input", !.input = vec]

NextCodec ==
    \/ SerializeCall
    \/ DeserializeCall

SpecCodec == InitCodec /\ [][NextCodec]_vars

\* The agent's tool calls, under each configuration of the approved actions.
InitGate ==
    /\ InitStore
    /\ codec = NoVector
    /\ auto_approve_actions \in AutoApproveConfigs

NextGate ==
    \E tool_name \in ToolNames, value \in {"fact", "note"}, callback \in Callbacks :
        HandleToolCall(tool_name, value, callback)

SpecGate == InitGate /\ [][NextGate]_vars

\* Threads that call save and delete concurrently on one store.
NextWrites ==
    \E t \in Threads :
        \/ CallSave(t, T_mid, "fact")
        \/ \E id \in {1, 2} : CallDelete(t, id)
        \/ ExecuteWrite(t)
        \/ BusyTimeout(t)
        \/ CommitWrite(t)
        \/ ReturnWrite(t)

SpecWrites == Init /\ [][NextWrites]_vars

-----------------------------------------------------------------------------
(* Properties *)

Saved == ret.op = "save" /\ ret.raised = "none"

Live == DOMAIN memories

\* search as a caller with a loaded model sees it on the current database.
HitIds(query, limit) ==
    LET r == Search(memories, memories_fts, query, limit, "loaded", TRUE)
    IN  {r.hits[i].id : i \in DOMAIN r.hits}

\* C1: after any sequence of save and delete, the ids in memories_fts are exactly the
\* ids of the live records of memories, and each index row carries its record's
\* content and category.
C1_IndexMirrorsTable ==
    /\ DOMAIN memories_fts = DOMAIN memories
    /\ \A id \in DOMAIN memories :
          /\ memories_fts[id].content = memories[id].content
          /\ memories_fts[id].category = memories[id].category

\* C1 happens: a record was deleted, a later save succeeded, and records are live.
C1_Witness ==
    /\ Saved
    /\ \E i \in DOMAIN returned : returned[i] \notin Live
    /\ Cardinality(Live) >= 2

\* C2: every id save returns is greater than every id an earlier save returned,
\* whether or not that record still exists.
C2_IdsNeverReused ==
    \A i, j \in DOMAIN returned : i < j => returned[i] < returned[j]

\* C2 happens: the record with the highest id was deleted, and the next save
\* succeeded.
C2_Witness ==
    /\ Saved
    /\ Len(returned) >= 2
    /\ returned[Len(returned) - 1] \notin Live
    /\ ret.id = returned[Len(returned)]

\* C3: a save that is hit by a failure (embedding, INSERT, trigger, commit) raises,
\* returns no id, and leaves memories, memories_fts and the id counter as they were.
C3_SaveAllOrNothing ==
    [][ ret'.op = "save" =>
          /\ (ret'.fault # "none" <=> ret'.raised # "none")
          /\ (ret'.raised # "none" =>
                /\ memories' = memories
                /\ memories_fts' = memories_fts
                /\ sqlite_sequence' = sqlite_sequence
                /\ returned' = returned)
          /\ (ret'.raised = "none" =>
                /\ DOMAIN memories' = DOMAIN memories \cup {ret'.id}
                /\ DOMAIN memories_fts' = DOMAIN memories_fts \cup {ret'.id}
                /\ ret'.id \notin DOMAIN memories) ]_vars

\* C3 happens: a commit failed on a store that holds records.
C3_Witness ==
    /\ ret.op = "save"
    /\ ret.fault = "commit"
    /\ ret.raised = "OperationalError"
    /\ Live # {}

\* C4: delete returns true exactly when the id was live, and then removes that record
\* and its index row; otherwise it returns false, raises nothing and changes nothing.
C4_DeleteReportsExistence ==
    [][ ret'.op = "delete" =>
          LET existed == ret'.id \in DOMAIN memories
          IN  /\ ret'.raised = "none"
              /\ ret'.flag = existed
              /\ DOMAIN memories' = DOMAIN memories \ {ret'.id}
              /\ DOMAIN memories_fts' = DOMAIN memories_fts \ {ret'.id}
              /\ \A id \in DOMAIN memories' : memories'[id] = memories[id]
              /\ \A id \in DOMAIN memories_fts' : memories_fts'[id] = memories_fts[id]
              /\ (~existed => memories' = memories /\ memories_fts' = memories_fts) ]_vars

\* C4 happens: delete of an id that was deleted before returned false, on a store
\* that still holds records.
C4_Witness ==
    /\ ret.op = "delete"
    /\ ~ret.flag
    /\ \E i \in DOMAIN returned : returned[i] = ret.id
    /\ Live # {}

\* C5: save immediately followed by delete of the returned id leaves count() at its
\* value before the save, and no search returns that id.
C5_SaveDeleteRestores ==
    (ret.op = "delete" /\ prev_saved # 0 /\ ret.id = prev_saved) =>
        /\ Count = prev_before
        /\ \A query \in Queries, limit \in Limits : prev_saved \notin HitIds(query, limit)

\* C5 happens: the id just saved was deleted, and other records are live.
C5_Witness ==
    /\ ret.op = "delete"
    /\ ret.flag
    /\ prev_saved # 0
    /\ ret.id = prev_saved
    /\ Live # {}

\* C6: save of empty or whitespace-only content raises InvalidContent, inserts no
\* record and no index row, and consumes no id (stated for the calls that no
\* provider or storage failure hits).
C6_BlankContentRejected ==
    [][ (ret'.op = "save" /\ ~StripNonEmpty(ret'.content) /\ ret'.fault = "none") =>
          /\ ret'.raised = "InvalidContent"
          /\ memories' = memories
          /\ memories_fts' = memories_fts
          /\ sqlite_sequence' = sqlite_sequence ]_vars

\* C7: search raises InvalidQuery exactly when the query is empty, and for every
\* other query it returns a list and raises nothing.
C7_InvalidQueryIffEmpty ==
    ret.op = "search" =>
        /\ (ret.query = <<>> <=> ret.raised = "InvalidQuery")
        /\ (ret.query # <<>> => ret.raised = "none")

\* C8: the list search returns is ordered by score descending, and records of equal
\* score are in ascending id order.
C8_OrderedByScoreThenId ==
    (ret.op = "search" /\ ret.raised = "none") =>
        \A i, j \in DOMAIN ret.hits :
            i < j => \/ ret.hits[i].score > ret.hits[j].score
                     \/ /\ ret.hits[i].score = ret.hits[j].score
                        /\ ret.hits[i].id < ret.hits[j].id

\* C8 happens: search returned two records of equal, positive score.
C8_Witness ==
    /\ ret.op = "search"
    /\ ret.raised = "none"
    /\ \E i, j \in DOMAIN ret.hits :
          i < j /\ ret.hits[i].score = ret.hits[j].score /\ ret.hits[i].score > 0

\* C9: on one store and one query, the result for a limit is a prefix of the result
\* for every larger limit, so no record of the smaller result is missing from the
\* larger.
C9_PrefixStable ==
    (ret.op = "search" /\ ret.raised = "none") =>
        \A limit2 \in Limits :
            limit2 > ret.limit =>
                LET larger == Search(memories, memories_fts, ret.query, limit2,
                                     embed_model, fastembed).hits
                IN  /\ Len(ret.hits) <= Len(larger)
                    /\ \A i \in DOMAIN ret.hits : larger[i].id = ret.hits[i].id

Unavailable == ~fastembed /\ embed_model = "None"

C11_NullEmbeddingKeywordSearchable ==
    (ret.op = "search" /\ ret.raised = "none" /\ Count <= ret.limit) =>
        LET ks == KeywordScores(memories_fts, ret.query, ret.limit)
        IN  \A id \in DOMAIN memories :
                (memories[id].embedding.nbytes = 0 /\ id \in DOMAIN ks) =>
                    \E i \in DOMAIN ret.hits :
                        /\ ret.hits[i].id = id
                        /\ ret.hits[i].vector_score = 0
                        /\ ret.hits[i].score = KEYWORD_WEIGHT * ks[id]

\* The keyword stage of search produces nothing for a query: no word character is
\* left after sanitizing, or the index rejects the query with a syntax error.
KeywordStageEmpty(query) ==
    \/ \A i \in DOMAIN query : ~IsWord(query[i])
    \/ FtsSyntaxError(Tokens(query))

\* C12: when the keyword stage produces nothing, a search whose vector stage
\* completed raises nothing and returns the records that have an embedding, ranked
\* by vector score, each with keyword_score 0 and score 0.7 * vector_score.
C12_KeywordStageFailsSoftly ==
    (/\ ret.op = "search"
     /\ embed_model = "loaded"
     /\ ~BadBlob(memories)
     /\ KeywordStageEmpty(ret.query)) =>
        /\ ret.raised = "none"
        /\ Len(ret.hits) = Min2(ret.limit, Len(VectorIds(memories)))
        /\ \A i \in DOMAIN ret.hits :
              /\ ret.hits[i].keyword_score = 0
              /\ ret.hits[i].id \in DOMAIN memories
              /\ ret.hits[i].vector_score =
                     VectorScore(memories, ret.hits[i].id, ModelEmbed(ret.query))
              /\ ret.hits[i].score = VECTOR_WEIGHT * ret.hits[i].vector_score
        /\ \A id \in RangeOf(VectorIds(memories)) :
              \/ \E i \in DOMAIN ret.hits : ret.hits[i].id = id
              \/ \A i \in DOMAIN ret.hits :
                     ret.hits[i].vector_score
                        >= VectorScore(memories, id, ModelEmbed(ret.query))

\* C12 happens: the index rejected the query (the reserved word NOT) although its
\* rows hold matches for other queries, and search returned records of positive score.
C12_Witness ==
    /\ ret.op = "search"
    /\ ret.raised = "none"
    /\ FtsSyntaxError(Tokens(ret.query))
    /\ Len(ret.hits) >= 2
    /\ ret.hits[1].score > 0

\* A stored embedding that does not hold the floats of a vector of the query's
\* dimension: its length is no multiple of 4, or its float count differs.
CorruptFor(blob, query) ==
    /\ blob.nbytes > 0
    /\ \/ blob.nbytes % 4 # 0
       \/ blob.nbytes \div 4 # Len(ModelEmbed(query))

\* C13: a search whose query was embedded raises nothing whatever the stored
\* embeddings are, gives a record with a corrupt embedding no vector score, and when
\* it truncates nothing returns every record with a sound embedding.
C13_CorruptVectorExcluded ==
    (ret.op = "search" /\ embed_model = "loaded") =>
        /\ ret.raised = "none"
        /\ \A i \in DOMAIN ret.hits :
              CorruptFor(memories[ret.hits[i].id].embedding, ret.query) =>
                  ret.hits[i].vector_score = 0
        /\ Count <= ret.limit =>
              \A id \in DOMAIN memories :
                  (memories[id].embedding.nbytes > 0
                     /\ ~CorruptFor(memories[id].embedding, ret.query)) =>
                      \E i \in DOMAIN ret.hits : ret.hits[i].id = id

\* The keyword score the rule of C14 gives a record, from the batch the index returns
\* for the sanitized query: 0 outside the batch, 1.0 when all ranks tie.
NormalizedRank(id, batch) ==
    LET ranks == {batch[i].rank : i \in DOMAIN batch}
        mine  == {batch[i].rank : i \in {j \in DOMAIN batch : batch[j].rowid = id}}
    IN  IF mine = {} THEN 0
        ELSE IF Max(ranks) = MinOf(ranks) THEN 1000
        ELSE 1000 - (((Max(mine) - MinOf(ranks)) * 1000) \div (Max(ranks) - MinOf(ranks)))

\* C14: every returned record has score = 0.7 * v + 0.3 * k with v in [0, 1], k the
\* rank normalized over the fetched batch (1.0 on a tie, 0 outside the batch), and
\* so k and score in [0, 1].
C14_ScoreFormulaAndRange ==
    (ret.op = "search" /\ ret.raised = "none") =>
        LET q     == FtsQuery(memories_fts, Sanitize(ret.query), ret.limit * 3)
            batch == IF StripNonEmpty(Sanitize(ret.query)) /\ q.raised = "none"
                     THEN q.rows ELSE <<>>
        IN  \A i \in DOMAIN ret.hits :
                LET h == ret.hits[i]
                IN  /\ h.score = (VECTOR_WEIGHT * h.vector_score)
                                    + (KEYWORD_WEIGHT * h.keyword_score)
                    /\ h.vector_score >= 0
                    /\ h.vector_score <= 1000
                    /\ h.keyword_score = NormalizedRank(h.id, batch)
                    /\ h.keyword_score >= 0
                    /\ h.keyword_score <= 1000
                    /\ h.score >= 0
                    /\ h.score <= 10000

\* C15: however the threads interleave, TextEmbedding is constructed at most once,
\* and every call of _get_model returns that one object.
C15_ModelLoadedOnce ==
    /\ made <= 1
    /\ Cardinality(used) <= 1
    /\ 0 \notin used

\* The ids the threads' deletes have reported as deleted.
DeletedIds == UNION {local[t].deleted : t \in Threads}

\* C16: under every interleaving of concurrent save and delete calls the saves return
\* distinct ids, the table and the index hold the same ids in every state, in the
\* file and in every connection, and once every call has returned the live records
\* are those saved and not reported deleted.
C16_WritesSerialized ==
    /\ \A i, j \in DOMAIN returned : i # j => returned[i] # returned[j]
    /\ DOMAIN memories_fts = DOMAIN memories
    /\ \A t \in Threads :
          pc[t] \in {"commit", "return"} =>
              DOMAIN local[t].conn.memories_fts = DOMAIN local[t].conn.memories
    /\ (\A t \in Threads : pc[t] = "idle") =>
          DOMAIN memories = RangeOf(returned) \ DeletedIds

\* C16 happens: a call found the database locked by another thread's write, two
\* saves returned, and a delete removed a record.
C16_Witness ==
    /\ \E t \in Threads : local[t].raised = "OperationalError"
    /\ Len(returned) >= 2
    /\ DeletedIds # {}
    /\ \A t \in Threads : pc[t] = "idle"

\* C17: get_all(limit) returns at most limit records, all of them live and the
\* latest created first, each with its own id, content, category and created_at
\* under those keys.
C17_GetAllListsLive ==
    ret.op = "get_all" =>
        /\ Len(ret.hits) = Min2(ret.limit, Count)
        /\ \A i \in DOMAIN ret.hits :
              /\ {"id", "content", "category", "created_at"} \subseteq DOMAIN ret.hits[i]
              /\ ret.hits[i]["id"] \in DOMAIN memories
              /\ ret.hits[i]["content"] = memories[ret.hits[i]["id"]].content
              /\ ret.hits[i]["category"] = memories[ret.hits[i]["id"]].category
              /\ ret.hits[i]["created_at"] = memories[ret.hits[i]["id"]].created_at
        /\ \A i, j \in DOMAIN ret.hits :
              i < j => ret.hits[i]["created_at"] >= ret.hits[j]["created_at"]
        /\ \A i \in DOMAIN ret.hits : \A id \in DOMAIN memories :
              \/ \E j \in DOMAIN ret.hits : ret.hits[j]["created_at"] = memories[id].created_at
              \/ memories[id].created_at <= ret.hits[i]["created_at"]

\* Every component of a vector is a float32 value.
IsFloat32Vector(vec) == \A i \in DOMAIN vec : 2 * (vec[i] \div 2) = vec[i]

C19_PermissionGate ==
    [][ (tool_ret' # tool_ret /\ tool_ret'.name \notin auto_approve_actions) =>
          /\ tool_ret'.handled => (tool_ret'.asked /\ tool_ret'.callback = "approve")
          /\ tool_ret'.callback = "None" => tool_ret'.result = "requires approval"
          /\ tool_ret'.callback = "deny" => tool_ret'.result = "Action denied by user."
          /\ tool_ret'.callback # "approve" =>
                /\ ~tool_ret'.handled
                /\ UNCHANGED <<memories, memories_fts, sqlite_sequence, files,
                               skills_run>> ]_vars

\* C19 happens: after a call of write_file that the callback approved and that wrote
\* the file, a call of save_memory without callback was refused.
C19_Witness ==
    /\ tool_ret.after_approved
    /\ "notes" \in DOMAIN files
    /\ tool_ret.name = "save_memory"
    /\ tool_ret.callback = "None"
    /\ tool_ret.result = "requires approval"
    /\ memories = <<>>

====
